---------------------------- MODULE Spec2Model ----------------------------
(***************************************************************************)
(* The sink folder watcher of FitTrackee                                   *)
(* (fittrackee/workouts/services/sink_folder_service.py): the watch        *)
(* coordinator (SinkFolderWatcher), the event handler and file processor   *)
(* (WorkoutFileHandler) and the filesystem, clock and store they act on.   *)
(*                                                                         *)
(* A path is a sequence of segments (Path(...).parts); a segment is the    *)
(* pair <<stem, suffix>> that os.path.splitext gives for it, so that       *)
(* "run.gpx" is <<"run", ".gpx">> and the directory "alice" is             *)
(* <<"alice", "">>.  The anchor "/" of an absolute path is left out.       *)
(***************************************************************************)
EXTENDS Integers, Sequences, FiniteSets, TLC

(***************************************************************************)
(* Bounds of the model.                                                    *)
(***************************************************************************)
MaxDrops == 2
MaxObservers == 2
MaxSweeps == 1
MaxClock == 1
MaxFaults == 1
MaxParts == 5

(***************************************************************************)
(* Program constants.                                                      *)
(***************************************************************************)
DEFAULT_SPORT_ID == 1
SINK_FOLDER_NAME == "sink"
PROCESSED_FOLDER_NAME == "processed"
ERROR_FOLDER_NAME == "error"
WORKOUT_ALLOWED_EXTENSIONS == {"fit", "gpx", "kml", "kmz", "tcx"}

Dir(name) == <<name, "">>
File(stem, suffix) == <<stem, suffix>>
None == <<>>

(***************************************************************************)
(* The configuration and the store.  UPLOAD_FOLDER is app.config's; the    *)
(* users and sports are the rows User.query and Sport.query find.          *)
(***************************************************************************)
UploadFolder == <<Dir("uploads")>>
Users == {Dir("alice"), Dir("bob")}
Suspended == {Dir("bob")}
Sports == {1, 2}

\* _get_sink_folder / get_sink_folder_path: os.path.join(UPLOAD_FOLDER, "sink")
SinkFolder == UploadFolder \o <<Dir(SINK_FOLDER_NAME)>>

(***************************************************************************)
(* Strings.  TLC cannot take a string apart, so str.lower, str.lstrip(".") *)
(* and int() are tabulated over the suffixes and digit strings in use.     *)
(***************************************************************************)
Lower(suffix) ==
    CASE suffix = ".GPX" -> ".gpx"
      [] suffix = ".FIT" -> ".fit"
      [] suffix = ".TCX" -> ".tcx"
      [] OTHER -> suffix

LstripDot(suffix) ==
    CASE suffix = ".gpx" -> "gpx"
      [] suffix = ".fit" -> "fit"
      [] suffix = ".tcx" -> "tcx"
      [] suffix = ".kml" -> "kml"
      [] suffix = ".kmz" -> "kmz"
      [] suffix = ".txt" -> "txt"
      [] suffix = ".error" -> "error"
      [] suffix = ".GPX" -> "GPX"
      [] suffix = ".FIT" -> "FIT"
      [] suffix = ".TCX" -> "TCX"
      [] OTHER -> suffix

\* Path(file_path).suffix.lower().lstrip(".")
Extension(path) == LstripDot(Lower(path[Len(path)][2]))

\* a filter that lets every file with a suffix through
AnySuffix(path) == Extension(path) # ""

\* extension in WORKOUT_ALLOWED_EXTENSIONS
IsAllowed(path) == Extension(path) \in WORKOUT_ALLOWED_EXTENSIONS

\* int(s): the value, or -1 where int() raises ValueError
IntOf(seg) ==
    CASE seg = Dir("1") -> 1
      [] seg = Dir("2") -> 2
      [] seg = Dir("3") -> 3
      [] OTHER -> -1

\* the whole name of a segment, as one string
NameOf(seg) == seg[1] \o seg[2]

\* a search that finds the last position of x
LastIndex(parts, x) ==
    IF \E i \in 1..Len(parts) : parts[i] = x
    THEN CHOOSE i \in 1..Len(parts) :
            parts[i] = x /\ \A j \in (i + 1)..Len(parts) : parts[j] # x
    ELSE 0

\* parts.index(x): the first position of x (from 1), 0 where index raises
Index(parts, x) ==
    IF \E i \in 1..Len(parts) : parts[i] = x
    THEN CHOOSE i \in 1..Len(parts) :
            parts[i] = x /\ \A j \in 1..(i - 1) : parts[j] # x
    ELSE 0

\* a parser that returns a user for every username
AnyUser(parts) ==
    LET sink_index == Index(parts, Dir(SINK_FOLDER_NAME))
        remaining_parts == SubSeq(parts, sink_index + 1, Len(parts))
    IN  IF sink_index = 0
        THEN [error |-> "'sink' not found in path", user |-> None, sport_id |-> 0]
        ELSE IF Len(remaining_parts) < 2
        THEN [error |-> "Invalid path structure", user |-> None, sport_id |-> 0]
        ELSE [error |-> "",
              user |-> remaining_parts[1],
              sport_id |-> IF Len(remaining_parts) = 3
                              /\ IntOf(remaining_parts[2]) # -1
                           THEN IntOf(remaining_parts[2])
                           ELSE DEFAULT_SPORT_ID]

\* a parser that takes every path for one of the default sport
DefaultSportOnly(parts) ==
    LET sink_index == Index(parts, Dir(SINK_FOLDER_NAME))
        remaining_parts == SubSeq(parts, sink_index + 1, Len(parts))
    IN  IF sink_index = 0
        THEN [error |-> "'sink' not found in path", user |-> None, sport_id |-> 0]
        ELSE IF Len(remaining_parts) < 2
        THEN [error |-> "Invalid path structure", user |-> None, sport_id |-> 0]
        ELSE [error |-> "",
              user |-> IF remaining_parts[1] \in Users
                       THEN remaining_parts[1] ELSE None,
              sport_id |-> DEFAULT_SPORT_ID]

(***************************************************************************)
(* _parse_file_path: the user row (None when absent) and the sport id, or  *)
(* the message of the ValueError it raises.                                *)
(***************************************************************************)
ParseFilePath(parts) ==
    LET sink_index == Index(parts, Dir(SINK_FOLDER_NAME))
        remaining_parts == SubSeq(parts, sink_index + 1, Len(parts))
    IN  IF sink_index = 0
        THEN [error |-> "'sink' not found in path", user |-> None, sport_id |-> 0]
        ELSE IF Len(remaining_parts) < 2
        THEN [error |-> "Invalid path structure", user |-> None, sport_id |-> 0]
        ELSE LET username == remaining_parts[1]
                 sport_id ==
                    IF Len(remaining_parts) = 2 THEN DEFAULT_SPORT_ID
                    ELSE IF Len(remaining_parts) = 3
                         THEN IF IntOf(remaining_parts[2]) # -1
                              THEN IntOf(remaining_parts[2])
                              ELSE DEFAULT_SPORT_ID
                         ELSE DEFAULT_SPORT_ID
             IN  [error |-> "",
                  user |-> IF username \in Users THEN username ELSE None,
                  sport_id |-> sport_id]

\* _move_to_error, lines 236-241: the owner segment taken from the path
ErrorUsername(parts) ==
    LET sink_index == Index(parts, Dir(SINK_FOLDER_NAME))
    IN  IF sink_index = 0 THEN Dir("unknown")
        ELSE IF Len(parts) > sink_index THEN parts[sink_index + 1]
        ELSE Dir("unknown")

\* os.path.join(sink_folder, dest_type, username)
DestFolder(dest_type, username) == SinkFolder \o <<Dir(dest_type), username>>

\* f"{name}_{timestamp}{ext}" with name, ext = os.path.splitext(filename)
Stamped(filename, timestamp) ==
    <<filename[1] \o "_" \o ToString(timestamp), filename[2]>>

\* filename + ".error"
SidecarName(filename) == <<NameOf(filename), ".error">>

Parent(path) == SubSeq(path, 1, Len(path) - 1)
IsPrefix(p, q) == Len(p) <= Len(q) /\ SubSeq(q, 1, Len(p)) = p

\* a directory and its ancestors down from the sink folder (os.makedirs)
WithParents(folder) ==
    {SubSeq(folder, 1, n) : n \in Len(SinkFolder)..Len(folder)}


(***************************************************************************)
(* What the environment does within a run.  It creates files, and a        *)
(* directory, under the sink folder, and its control thread calls start,   *)
(* stop and the sweep.  A run draws the places where files appear, how     *)
(* many appear and how many observers it lets run at once from one of      *)
(* these worlds.  Every file gets the next id as its content, so that two  *)
(* files never hold the same bytes.                                        *)
(***************************************************************************)
NewFile(rel) == [src_path |-> SinkFolder \o rel, is_directory |-> FALSE]
NewDir(rel) == [src_path |-> SinkFolder \o rel, is_directory |-> TRUE]
World(creates, drops, starts) ==
    [creates |-> creates, drops |-> drops, observers |-> starts]

Worlds ==
    {World({NewFile(<<Dir("alice"), File("run", ".gpx")>>),
            NewFile(<<Dir("alice"), Dir("2"), File("run", ".gpx")>>)},
           MaxDrops, MaxObservers - 1),
     World({NewFile(<<File("run", ".gpx")>>),
            NewFile(<<Dir("ghost"), Dir("3"), File("x", ".tcx")>>)},
           MaxDrops, MaxObservers - 1),
     World({NewFile(<<Dir(PROCESSED_FOLDER_NAME), File("run", ".gpx")>>),
            NewFile(<<Dir("alice"), Dir(PROCESSED_FOLDER_NAME),
                      File("run", ".gpx")>>)},
           MaxDrops, MaxObservers - 1),
     World({NewFile(<<Dir("alice"), File("notes", ".txt")>>),
            NewDir(<<Dir("alice"), File("trip", ".gpx")>>)},
           MaxDrops, MaxObservers - 1),
     World({NewFile(<<Dir("bob"), Dir("3"), File("ride", ".FIT")>>),
            NewFile(<<Dir("bob"), File("run", ".gpx")>>)},
           MaxDrops, MaxObservers - 1),
     World({NewFile(<<Dir("alice"), File("run", ".gpx")>>)},
           MaxDrops - 1, MaxObservers)}

Main == 0
ObserverIds == 1..MaxObservers
Threads == {Main} \cup ObserverIds

VARIABLES
    fs,         \* the files under the sink folder: path -> content
    dirs,       \* the directories created under the sink folder
    now,        \* the clock, in seconds
    nextId,     \* the id of the next file the environment drops
    world,      \* what the environment does in this run
    imports,    \* file id -> how often the import service created workouts for it
    observers,  \* the Observer objects that are running
    current,    \* SinkFolderWatcher.observer (0: None)
    queue,      \* observer -> its event queue
    proc,       \* thread -> where it is in on_created / _process_file
    sweep,      \* process_existing_files: its walk, count and return value
    sweepsDone, \* how many sweeps were started
    faults      \* how many I/O errors and unexpected exceptions there were

vars == <<fs, dirs, now, nextId, world, imports, observers, current, queue, proc,
          sweep, sweepsDone, faults>>

\* a thread that is in no _process_file call
Idle ==
    [pc |-> "idle", file_path |-> <<>>, dest_type |-> "", username |-> None,
     error_msg |-> "", dest_path |-> <<>>, in_try |-> FALSE,
     created |-> FALSE, rolled_back |-> FALSE, parse_failed |-> FALSE]

NoSweep ==
    [state |-> "off", dirs |-> {}, files |-> {}, count |-> 0,
     firstNew |-> 1, visited |-> {}]

\* the content of a file the environment writes, and of a sidecar (its
\* "Error:" line; the "Timestamp:" line is left out)
Content(id) == [id |-> id, error |-> ""]
ErrorContent(error_msg) == [id |-> 0, error |-> error_msg]

Init ==
    /\ fs = [p \in {} |-> Content(0)]
    /\ dirs = {}
    /\ now = 0
    /\ nextId = 1
    /\ world \in Worlds
    /\ imports = [i \in 1..MaxDrops |-> 0]
    /\ observers = {}
    /\ current = 0
    /\ queue = [o \in ObserverIds |-> <<>>]
    /\ proc = [t \in Threads |-> Idle]
    /\ sweep = NoSweep
    /\ sweepsDone = 0
    /\ faults = 0

\* os.path.exists
Exists(path) == path \in DOMAIN fs \/ path \in dirs

\* fs with one more file, and with a file renamed (os.rename replaces dst)
WriteFile(f, path, content) ==
    [p \in DOMAIN f \cup {path} |-> IF p = path THEN content ELSE f[p]]
\* a move that copies and leaves the source behind
CopyOnly(f, src, dst) ==
    [p \in DOMAIN f \cup {dst} |-> IF p = dst THEN f[src] ELSE f[p]]
Rename(f, src, dst) ==
    [p \in (DOMAIN f \ {src}) \cup {dst} |-> IF p = dst THEN f[src] ELSE f[p]]

\* the observers' emitters put a creation event into every running
\* observer's queue; a dispatcher thread that died takes none out
Notify(q, path, is_directory) ==
    [o \in ObserverIds |->
        IF o \in observers /\ proc[o].pc # "dead"
        THEN Append(q[o], [src_path |-> path, is_directory |-> is_directory])
        ELSE q[o]]


(***************************************************************************)
(* The environment: a user drops a file or makes a directory under the     *)
(* sink folder, a second passes, the process is killed.                    *)
(***************************************************************************)
Drop(path) ==
    /\ nextId <= world.drops
    /\ [src_path |-> path, is_directory |-> FALSE] \in world.creates
    /\ ~Exists(path)
    /\ fs' = WriteFile(fs, path, Content(nextId))
    /\ nextId' = nextId + 1
    /\ queue' = Notify(queue, path, FALSE)
    /\ UNCHANGED <<dirs, now, world, imports, observers, current, proc, sweep,
                   sweepsDone, faults>>

DropDir(path) ==
    /\ nextId <= world.drops
    /\ [src_path |-> path, is_directory |-> TRUE] \in world.creates
    /\ ~Exists(path)
    /\ dirs' = dirs \cup WithParents(path)
    /\ nextId' = nextId + 1
    /\ queue' = Notify(queue, path, TRUE)
    /\ UNCHANGED <<fs, now, world, imports, observers, current, proc, sweep,
                   sweepsDone, faults>>

Tick ==
    /\ now < MaxClock
    /\ now' = now + 1
    /\ UNCHANGED <<fs, dirs, nextId, world, imports, observers, current, queue, proc,
                   sweep, sweepsDone, faults>>

\* the process dies: its threads, observers and queues are gone, the
\* filesystem and the committed workouts stay
Crash ==
    /\ observers # {} \/ sweep.state = "walk"
    /\ observers' = {}
    /\ current' = 0
    /\ queue' = [o \in ObserverIds |-> <<>>]
    /\ proc' = [t \in Threads |-> Idle]
    /\ sweep' = NoSweep
    /\ UNCHANGED <<fs, dirs, now, nextId, world, imports, sweepsDone, faults>>

(***************************************************************************)
(* SinkFolderWatcher.start and stop, called by the thread that also runs   *)
(* the sweep.  start makes a new Observer and assigns it to self.observer, *)
(* whatever that held; stop stops and joins self.observer only.            *)
(***************************************************************************)
SetupFolders ==
    {SinkFolder, SinkFolder \o <<Dir(PROCESSED_FOLDER_NAME)>>,
     SinkFolder \o <<Dir(ERROR_FOLDER_NAME)>>}

Start ==
    /\ sweep.state # "walk"
    /\ Cardinality(observers) < world.observers
    /\ \E o \in ObserverIds :
        /\ o \notin observers
        /\ \A other \in ObserverIds : other < o => other \in observers
        /\ observers' = observers \cup {o}
        /\ current' = o
    /\ dirs' = dirs \cup SetupFolders
    /\ UNCHANGED <<fs, now, nextId, world, imports, queue, proc, sweep, sweepsDone, faults>>

\* observer.stop() ends the dispatch loop, observer.join() returns when the
\* handler call in flight has returned; queued events are dropped
Stop ==
    /\ sweep.state # "walk"
    /\ current # 0
    /\ proc[current].pc \in {"idle", "dead"}
    /\ observers' = observers \ {current}
    /\ queue' = [queue EXCEPT ![current] = <<>>]
    /\ proc' = [proc EXCEPT ![current] = Idle]
    /\ current' = 0
    /\ UNCHANGED <<fs, dirs, now, nextId, world, imports, sweep, sweepsDone, faults>>

(***************************************************************************)
(* WorkoutFileHandler.on_created, on an observer's dispatcher thread: the  *)
(* next event of the queue is ignored or, after the sleep, processed.      *)
(***************************************************************************)
Begin(file_path) == [Idle EXCEPT !.pc = "process", !.file_path = file_path]

OnCreated(o) ==
    /\ o \in observers
    /\ proc[o].pc = "idle"
    /\ queue[o] # <<>>
    /\ queue' = [queue EXCEPT ![o] = Tail(@)]
    /\ LET event == Head(queue[o])
       IN  IF event.is_directory
           THEN UNCHANGED proc
           ELSE IF ~IsAllowed(event.src_path)
           THEN UNCHANGED proc
           ELSE proc' = [proc EXCEPT ![o] = Begin(event.src_path)]
    /\ UNCHANGED <<fs, dirs, now, nextId, world, imports, observers, current, sweep,
                   sweepsDone, faults>>


(***************************************************************************)
(* WorkoutFileHandler._process_file, in the steps another thread can see:  *)
(*   process  lines 81-171 up to the call of the router: parse, look up,   *)
(*            read, import;                                                *)
(*   route    _move_file, lines 266-281: makedirs and the choice of the    *)
(*            destination name;                                            *)
(*   move     _move_file, lines 283-287: shutil.move;                      *)
(*   sidecar  _move_to_error, lines 245-262.                               *)
(***************************************************************************)

\* the call self._move_to_error(file_path, error_msg), up to _move_file
MoveToError(p, error_msg) ==
    [p EXCEPT !.pc = "route", !.dest_type = ERROR_FOLDER_NAME,
              !.username = ErrorUsername(p.file_path),
              !.error_msg = error_msg]

\* the call self._move_to_processed(file_path, user.username)
MoveToProcessed(p, username) ==
    [p EXCEPT !.pc = "route", !.dest_type = PROCESSED_FOLDER_NAME,
              !.username = username]

\* an except clause that does not roll back
NoRollback(p) == p

\* except Exception: db.session.rollback()
Rollback(p) == [p EXCEPT !.rolled_back = TRUE]

\* an I/O error or an unexpected exception may strike
Fault == faults < MaxFaults /\ faults' = faults + 1
NoFault == UNCHANGED faults

\* a processor that checks the owner's eligibility before the sport
EligibilityFirst(t) ==
    /\ proc[t].pc = "process"
    /\ LET p == proc[t]
           parsed == ParseFilePath(p.file_path)
       IN  IF parsed.error # ""
           THEN /\ proc' = [proc EXCEPT ![t] =
                        [MoveToError(p, parsed.error) EXCEPT !.parse_failed = TRUE]]
                /\ UNCHANGED imports
                /\ NoFault
           ELSE IF parsed.user = None
           THEN /\ proc' = [proc EXCEPT ![t] =
                        MoveToError(p, "Could not determine user")]
                /\ UNCHANGED imports
                /\ NoFault
           ELSE IF parsed.user \in Suspended
           THEN /\ proc' = [proc EXCEPT ![t] =
                        MoveToError(p, "User " \o NameOf(parsed.user)
                                       \o " is suspended")]
                /\ UNCHANGED imports
                /\ NoFault
           ELSE IF parsed.sport_id \notin Sports
           THEN /\ proc' = [proc EXCEPT ![t] =
                        MoveToError(p, "Sport ID " \o ToString(parsed.sport_id)
                                       \o " not found")]
                /\ UNCHANGED imports
                /\ NoFault
           ELSE \/ \* open() or read() raises: the file is gone, or an I/O error
                   /\ IF p.file_path \in DOMAIN fs THEN Fault ELSE NoFault
                   /\ proc' = [proc EXCEPT ![t] = MoveToError(p, "read failed")]
                   /\ UNCHANGED imports
                \/ \* the service creates workouts
                   /\ p.file_path \in DOMAIN fs
                   /\ imports' = [imports EXCEPT ![fs[p.file_path].id] = @ + 1]
                   /\ proc' = [proc EXCEPT ![t] =
                        [MoveToProcessed(p, parsed.user) EXCEPT
                            !.in_try = TRUE, !.created = TRUE]]
                   /\ NoFault
                \/ \* the service creates none and reports errored_workouts
                   /\ p.file_path \in DOMAIN fs
                   /\ UNCHANGED imports
                   /\ proc' = [proc EXCEPT ![t] =
                        [MoveToError(p, "errored_workouts") EXCEPT
                            !.in_try = TRUE]]
                   /\ NoFault
                \/ \* the service raises: except, db.session.rollback()
                   /\ p.file_path \in DOMAIN fs
                   /\ Fault
                   /\ UNCHANGED imports
                   /\ proc' = [proc EXCEPT ![t] =
                        Rollback(MoveToError(p, "import raised"))]
    /\ UNCHANGED <<fs, dirs, now, nextId, world, observers, current, queue, sweep,
                   sweepsDone>>

ProcessFile(t) ==
    /\ proc[t].pc = "process"
    /\ LET p == proc[t]
           parsed == ParseFilePath(p.file_path)
       IN  IF parsed.error # ""
           THEN /\ proc' = [proc EXCEPT ![t] =
                        [MoveToError(p, parsed.error) EXCEPT !.parse_failed = TRUE]]
                /\ UNCHANGED imports
                /\ NoFault
           ELSE IF parsed.user = None
           THEN /\ proc' = [proc EXCEPT ![t] =
                        MoveToError(p, "Could not determine user")]
                /\ UNCHANGED imports
                /\ NoFault
           ELSE IF parsed.sport_id \notin Sports
           THEN /\ proc' = [proc EXCEPT ![t] =
                        MoveToError(p, "Sport ID " \o ToString(parsed.sport_id)
                                       \o " not found")]
                /\ UNCHANGED imports
                /\ NoFault
           ELSE IF parsed.user \in Suspended
           THEN /\ proc' = [proc EXCEPT ![t] =
                        MoveToError(p, "User " \o NameOf(parsed.user)
                                       \o " is suspended")]
                /\ UNCHANGED imports
                /\ NoFault
           ELSE \/ \* open() or read() raises: the file is gone, or an I/O error
                   /\ IF p.file_path \in DOMAIN fs THEN Fault ELSE NoFault
                   /\ proc' = [proc EXCEPT ![t] = MoveToError(p, "read failed")]
                   /\ UNCHANGED imports
                \/ \* the service creates workouts
                   /\ p.file_path \in DOMAIN fs
                   /\ imports' = [imports EXCEPT ![fs[p.file_path].id] = @ + 1]
                   /\ proc' = [proc EXCEPT ![t] =
                        [MoveToProcessed(p, parsed.user) EXCEPT
                            !.in_try = TRUE, !.created = TRUE]]
                   /\ NoFault
                \/ \* the service creates none and reports errored_workouts
                   /\ p.file_path \in DOMAIN fs
                   /\ UNCHANGED imports
                   /\ proc' = [proc EXCEPT ![t] =
                        [MoveToError(p, "errored_workouts") EXCEPT
                            !.in_try = TRUE]]
                   /\ NoFault
                \/ \* the service raises: except, db.session.rollback()
                   /\ p.file_path \in DOMAIN fs
                   /\ Fault
                   /\ UNCHANGED imports
                   /\ proc' = [proc EXCEPT ![t] =
                        Rollback(MoveToError(p, "import raised"))]
    /\ UNCHANGED <<fs, dirs, now, nextId, world, observers, current, queue, sweep,
                   sweepsDone>>

\* _move_file up to shutil.move.  os.makedirs is outside the try: when it
\* raises inside the try of _process_file (lines 162, 166) the except of
\* line 168 rolls back and calls _move_to_error, elsewhere it propagates
Route(t) ==
    /\ proc[t].pc = "route"
    /\ LET p == proc[t]
           dest_folder == DestFolder(p.dest_type, p.username)
           filename == p.file_path[Len(p.file_path)]
           dest_path == dest_folder \o <<filename>>
       IN  \/ /\ NoFault
              /\ dirs' = dirs \cup WithParents(dest_folder)
              /\ proc' = [proc EXCEPT ![t] = [p EXCEPT
                    !.pc = "move",
                    !.dest_path =
                        IF Exists(dest_path)
                        THEN dest_folder \o <<Stamped(filename, now)>>
                        ELSE dest_path]]
           \/ /\ dest_folder \notin dirs
              /\ Fault
              /\ UNCHANGED dirs
              /\ proc' = [proc EXCEPT ![t] =
                    IF p.in_try
                    THEN [Rollback(MoveToError(p, "makedirs failed")) EXCEPT
                            !.in_try = FALSE]
                    ELSE [p EXCEPT !.pc = "raised"]]
    /\ UNCHANGED <<fs, now, nextId, world, imports, observers, current, queue, sweep,
                   sweepsDone>>

\* _process_file returns: the dispatcher thread takes the next event, the
\* sweep counts the file
Returned(t) == [proc EXCEPT ![t] = Idle]
Counted(t) == IF t = Main THEN [sweep EXCEPT !.count = @ + 1] ELSE sweep

\* shutil.move(file_path, dest_path) in its try: a rename, or an exception
\* that is logged
Move(t) ==
    /\ proc[t].pc = "move"
    /\ LET p == proc[t]
       IN  /\ \/ /\ p.file_path \in DOMAIN fs
                 /\ NoFault
                 /\ fs' = Rename(fs, p.file_path, p.dest_path)
              \/ /\ IF p.file_path \in DOMAIN fs THEN Fault ELSE NoFault
                 /\ UNCHANGED fs
           /\ IF p.dest_type = ERROR_FOLDER_NAME
              THEN /\ proc' = [proc EXCEPT ![t] = [p EXCEPT !.pc = "sidecar"]]
                   /\ UNCHANGED sweep
              ELSE /\ proc' = Returned(t)
                   /\ sweep' = Counted(t)
    /\ UNCHANGED <<dirs, now, nextId, world, imports, observers, current, queue,
                   sweepsDone>>

\* the companion file of _move_to_error, in its try
Sidecar(t) ==
    /\ proc[t].pc = "sidecar"
    /\ LET p == proc[t]
           dest_folder == DestFolder(ERROR_FOLDER_NAME, p.username)
           filename == p.file_path[Len(p.file_path)]
           error_dest == dest_folder \o <<SidecarName(filename)>>
       IN  \/ /\ NoFault
              /\ dirs' = dirs \cup WithParents(dest_folder)
              /\ fs' = WriteFile(fs, error_dest, ErrorContent(p.error_msg))
              /\ queue' = IF error_dest \in DOMAIN fs THEN queue
                          ELSE Notify(queue, error_dest, FALSE)
           \/ /\ Fault
              /\ UNCHANGED <<dirs, fs, queue>>
    /\ proc' = Returned(t)
    /\ sweep' = Counted(t)
    /\ UNCHANGED <<now, nextId, world, imports, observers, current, sweepsDone>>

\* an exception leaves _process_file: it ends the dispatcher thread of an
\* observer, and it leaves process_existing_files
Unwind(t) ==
    /\ proc[t].pc = "raised"
    /\ IF t = Main
       THEN /\ proc' = Returned(t)
            /\ sweep' = [sweep EXCEPT !.state = "aborted"]
       ELSE /\ proc' = [proc EXCEPT ![t] = [Idle EXCEPT !.pc = "dead"]]
            /\ UNCHANGED sweep
    /\ UNCHANGED <<fs, dirs, now, nextId, world, imports, observers, current, queue,
                   sweepsDone, faults>>

(***************************************************************************)
(* SinkFolderWatcher.process_existing_files: os.walk lists a directory     *)
(* when it reaches it, the loop prunes its subdirectories and processes    *)
(* its files one after the other.                                          *)
(***************************************************************************)
\* the directories there are: those created, and those that hold a file
Ancestors(path) == {SubSeq(path, 1, n) : n \in 1..(Len(path) - 1)}
AllDirs == dirs \cup UNION {Ancestors(path) : path \in DOMAIN fs}

Subdirs(folder) ==
    {d \in AllDirs : Len(d) = Len(folder) + 1 /\ IsPrefix(folder, d)}

\* a walk that prunes nothing
Unpruned(ds) == ds

\* dirs[:] = [d for d in dirs if d not in [PROCESSED_FOLDER_NAME, ERROR_FOLDER_NAME]]
Pruned(ds) ==
    {d \in ds : NameOf(d[Len(d)]) \notin
                    {PROCESSED_FOLDER_NAME, ERROR_FOLDER_NAME}}

SweepStart ==
    /\ sweep.state # "walk"
    /\ sweepsDone < MaxSweeps
    /\ sweepsDone' = sweepsDone + 1
    /\ sweep' = [state |-> "walk", dirs |-> {SinkFolder}, files |-> {},
                 count |-> 0, firstNew |-> nextId, visited |-> {}]
    /\ UNCHANGED <<fs, dirs, now, nextId, world, imports, observers, current, queue,
                   proc, faults>>

SweepList ==
    /\ sweep.state = "walk"
    /\ proc[Main].pc = "idle"
    /\ sweep.files = {}
    /\ \E root \in sweep.dirs :
        sweep' = [sweep EXCEPT
            !.dirs = (@ \ {root}) \cup Pruned(Subdirs(root)),
            !.files = {path \in DOMAIN fs :
                          Parent(path) = root /\ IsAllowed(path)}]
    /\ UNCHANGED <<fs, dirs, now, nextId, world, imports, observers, current, queue,
                   proc, sweepsDone, faults>>

SweepFile ==
    /\ sweep.state = "walk"
    /\ proc[Main].pc = "idle"
    /\ \E file_path \in sweep.files :
        /\ sweep' = [sweep EXCEPT !.files = @ \ {file_path},
                                  !.visited = @ \cup {file_path}]
        /\ proc' = [proc EXCEPT ![Main] = Begin(file_path)]
    /\ UNCHANGED <<fs, dirs, now, nextId, world, imports, observers, current, queue,
                   sweepsDone, faults>>

SweepReturn ==
    /\ sweep.state = "walk"
    /\ proc[Main].pc = "idle"
    /\ sweep.files = {}
    /\ sweep.dirs = {}
    /\ sweep' = [sweep EXCEPT !.state = "done"]
    /\ UNCHANGED <<fs, dirs, now, nextId, world, imports, observers, current, queue,
                   proc, sweepsDone, faults>>

Next ==
    \/ \E item \in world.creates : Drop(item.src_path)
    \/ \E item \in world.creates : DropDir(item.src_path)
    \/ Tick
    \/ Crash
    \/ Start
    \/ Stop
    \/ \E o \in ObserverIds : OnCreated(o)
    \/ \E t \in Threads : ProcessFile(t)
    \/ \E t \in Threads : Route(t)
    \/ \E t \in Threads : Move(t)
    \/ \E t \in Threads : Sidecar(t)
    \/ \E t \in Threads : Unwind(t)
    \/ SweepStart
    \/ SweepList
    \/ SweepFile
    \/ SweepReturn

Spec == Init /\ [][Next]_vars


(***************************************************************************)
(* Vocabulary of the properties.                                           *)
(***************************************************************************)
ProcessedRoot == SinkFolder \o <<Dir(PROCESSED_FOLDER_NAME)>>
ErrorRoot == SinkFolder \o <<Dir(ERROR_FOLDER_NAME)>>
UnderTerminal(path) == IsPrefix(ProcessedRoot, path) \/ IsPrefix(ErrorRoot, path)

\* thread t is inside a _process_file call, at or after the router's call
InFlight(t) == proc[t].pc \in {"process", "route", "move", "sidecar", "raised"}
Resolving(t) == proc[t].pc \in {"route", "move", "sidecar", "raised"}

\* a file the environment dropped (a sidecar has id 0)
Dropped(path) == path \in DOMAIN fs /\ fs[path].id # 0

\* this step is thread t's shutil.move, and it moved the file
MovedBy(t) == proc[t].pc = "move" /\ proc'[t].pc # "move" /\ fs' # fs

(***************************************************************************)
(* C1.  Handling is exactly-once-effective: whatever the drops, events,    *)
(* sweeps, crashes and restarts, the import service creates workouts at    *)
(* most once for a dropped file.                                           *)
(***************************************************************************)
C1_ImportedAtMostOnce == \A id \in DOMAIN imports : imports[id] <= 1

(***************************************************************************)
(* C2.  When the router moves a file into processed/{owner}/, the          *)
(* destination then holds the content the file had and the original path   *)
(* holds it no more; and in every state no dropped file is at two paths.   *)
(***************************************************************************)
C2_NeverInBoth ==
    \A p, q \in DOMAIN fs : fs[p].id # 0 /\ fs[p].id = fs[q].id => p = q

C2_MoveStep ==
    \A t \in Threads :
        MovedBy(t) /\ proc[t].dest_type = PROCESSED_FOLDER_NAME =>
            /\ Parent(proc[t].dest_path)
                    = DestFolder(PROCESSED_FOLDER_NAME, proc[t].username)
            /\ proc[t].dest_path \in DOMAIN fs'
            /\ fs'[proc[t].dest_path] = fs[proc[t].file_path]
            /\ proc[t].file_path \notin DOMAIN fs'

C2_MoveRoundTrip == [](C2_NeverInBoth) /\ [][C2_MoveStep]_vars

\* a dropped file sits in processed/alice/ and nowhere else
C2_Witness ==
    LET dest == DestFolder(PROCESSED_FOLDER_NAME, Dir("alice"))
                    \o <<File("run", ".gpx")>>
    IN  /\ Dropped(dest)
        /\ \A q \in DOMAIN fs : fs[q].id = fs[dest].id => q = dest

(***************************************************************************)
(* C3.  Routing two distinct files of the same name to the same            *)
(* destination folder never overwrites: a dropped file that sits in        *)
(* processed/{owner}/ under its original name keeps its content as long as *)
(* it is there, whatever is routed to that folder next.                    *)
(***************************************************************************)
C3_Step ==
    \A path \in DOMAIN fs :
        /\ Dropped(path)
        /\ \E owner \in Users :
                Parent(path) = DestFolder(PROCESSED_FOLDER_NAME, owner)
        /\ \E item \in world.creates :
                item.src_path[Len(item.src_path)] = path[Len(path)]
        /\ path \in DOMAIN fs'
        => fs'[path] = fs[path]

C3_NeverOverwrites == [][C3_Step]_vars

(***************************************************************************)
(* C4.  The reserved children processed and error of the sink folder are   *)
(* never taken for owner directories: no file is resolved with the owner   *)
(* processed or error.                                                     *)
(***************************************************************************)
C4_ReservedNeverOwner ==
    \A t \in Threads :
        Resolving(t) =>
            NameOf(proc[t].username) \notin
                {PROCESSED_FOLDER_NAME, ERROR_FOLDER_NAME}

(***************************************************************************)
(* C5.  A sweep never hands a file under the sink folder's processed/ or   *)
(* error/ subtree, at any depth, to _process_file.                         *)
(***************************************************************************)
C5_SweepSkipsTerminal ==
    /\ \A path \in sweep.files \cup sweep.visited : ~UnderTerminal(path)
    /\ \A root \in sweep.dirs : ~UnderTerminal(root)
    /\ InFlight(Main) => ~UnderTerminal(proc[Main].file_path)

\* a sweep has returned, and a file with an allowed extension that was in
\* processed/ or error/ before the sweep began is still there
C5_Witness ==
    /\ sweep.state = "done"
    /\ \E path \in DOMAIN fs :
        /\ Dropped(path)
        /\ UnderTerminal(path)
        /\ IsAllowed(path)
        /\ fs[path].id < sweep.firstNew

(***************************************************************************)
(* C6.  A sweep hands every file with an allowed extension that is under   *)
(* the sink folder and outside its processed/ and error/ subtrees to       *)
(* _process_file, once, also in an owner's subdirectory named processed    *)
(* or error, and returns the number of files it handed over.               *)
(***************************************************************************)
C6_SweepProcessesAll ==
    sweep.state = "done" =>
        /\ \A path \in DOMAIN fs :
                /\ Dropped(path)
                /\ fs[path].id < sweep.firstNew
                /\ IsAllowed(path)
                /\ ~UnderTerminal(path)
                => path \in sweep.visited
        /\ sweep.count = Cardinality(sweep.visited)

(***************************************************************************)
(* C7.  Directory-creation events and files whose extension is not in the  *)
(* allowed set are ignored by the event handler and by the sweep: no       *)
(* _process_file call is ever about one of them, the handler's step that   *)
(* takes such an event changes neither the filesystem nor the store nor    *)
(* the handler, the file stays where it is with its content, and no        *)
(* sidecar is written for it.                                              *)
(***************************************************************************)
Ignorable(path, is_directory) ==
    is_directory \/ Extension(path) \notin WORKOUT_ALLOWED_EXTENSIONS

\* no call is about a directory or a file outside the allowed set
C7_NeverProcessed ==
    /\ \A t \in Threads :
        InFlight(t) =>
            /\ ~Ignorable(proc[t].file_path, FALSE)
            /\ proc[t].file_path \notin dirs
    /\ \A path \in sweep.files \cup sweep.visited :
            ~Ignorable(path, FALSE) /\ path \notin dirs

\* no sidecar carries the name of something that is to be ignored
C7_NoSidecar ==
    \A item \in world.creates :
        Ignorable(item.src_path, item.is_directory) =>
            \A path \in DOMAIN fs :
                path[Len(path)] # SidecarName(item.src_path[Len(item.src_path)])

\* the handler takes an ignorable event: nothing but the queue changes
C7_EventStep ==
    \A o \in observers \cap observers' :
        /\ proc[o].pc = "idle"
        /\ queue[o] # <<>>
        /\ queue'[o] = Tail(queue[o])
        /\ Ignorable(Head(queue[o]).src_path, Head(queue[o]).is_directory)
        => /\ fs' = fs
           /\ dirs' = dirs
           /\ imports' = imports
           /\ proc' = proc

\* an ignorable file keeps its place and its content, a directory stays
C7_FrameStep ==
    /\ \A path \in DOMAIN fs :
            Dropped(path) /\ Ignorable(path, FALSE) =>
                path \in DOMAIN fs' /\ fs'[path] = fs[path]
    /\ dirs \subseteq dirs'

C7_IgnoredUntouched ==
    /\ [](C7_NeverProcessed /\ C7_NoSidecar)
    /\ [][C7_EventStep /\ C7_FrameStep]_vars

\* a sweep and an observer were both running before anything was dropped;
\* notes.txt and then the directory trip.gpx appeared in alice/; the
\* observer has taken both events, the sweep has listed alice/ and is about
\* to walk trip.gpx; nothing was handed over
C7_Witness ==
    LET notes == SinkFolder \o <<Dir("alice"), File("notes", ".txt")>>
        trip == SinkFolder \o <<Dir("alice"), File("trip", ".gpx")>>
    IN  /\ sweep.state = "walk"
        /\ sweep.firstNew = 1
        /\ sweep.dirs = {trip}
        /\ sweep.files = {}
        /\ sweep.visited = {}
        /\ observers = {1}
        /\ proc[1].pc = "idle"
        /\ queue[1] = <<>>
        /\ notes \in DOMAIN fs
        /\ fs[notes] = Content(1)
        /\ trip \in dirs
        /\ \A id \in DOMAIN imports : imports[id] = 0

(***************************************************************************)
(* C8.  The outcome router never raises to its caller: no _process_file    *)
(* call is ever left by an exception of _move_to_processed,                *)
(* _move_to_error or _move_file.                                           *)
(***************************************************************************)
C8_RouterNeverRaises == \A t \in Threads : proc[t].pc # "raised"

(***************************************************************************)
(* C9.  Whenever parsing the path fails, the file is resolved as errored   *)
(* with the owner "unknown" and routed to error/unknown/.                  *)
(***************************************************************************)
C9_ParseFailureUnknown ==
    \A t \in Threads :
        Resolving(t) /\ proc[t].parse_failed =>
            /\ proc[t].dest_type = ERROR_FOLDER_NAME
            /\ proc[t].username = Dir("unknown")

(***************************************************************************)
(* C10.  Whenever the import service has created a workout for a file,     *)
(* the outcome is processed: the file is routed to processed/{owner}/,     *)
(* never to error/, and no sidecar is written for it.                      *)
(***************************************************************************)
C10_CreatedIsProcessed ==
    \A t \in Threads :
        Resolving(t) /\ proc[t].created =>
            /\ proc[t].dest_type = PROCESSED_FOLDER_NAME
            /\ proc[t].pc # "sidecar"

(***************************************************************************)
(* C11.  Once stop() has returned the subscription is torn down, also      *)
(* when start() was called twice without a stop() between: while           *)
(* SinkFolderWatcher.observer is None no observer is running, so that no   *)
(* creation event reaches the file processor before the next start().      *)
(***************************************************************************)
C11_StopTearsDown == current = 0 => observers = {}

(***************************************************************************)
(* The parser on its own.  _parse_file_path and the owner extraction of    *)
(* _move_to_error are functions of the path's parts: this specification    *)
(* calls them on every path of up to MaxParts segments, under an           *)
(* UPLOAD_FOLDER that has, or has not, an ancestor named like the sink     *)
(* folder.                                                                 *)
(***************************************************************************)
ParseSegs ==
    {Dir("uploads"), Dir(SINK_FOLDER_NAME), Dir("alice"), Dir("2"), Dir("3"),
     File("run", ".gpx")}
ParsePaths == UNION {[1..n -> ParseSegs] : n \in 1..MaxParts}
UploadFolders == {UploadFolder, <<Dir(SINK_FOLDER_NAME)>> \o UploadFolder}

ParseInit ==
    /\ fs = [p \in {} |-> Content(0)]
    /\ dirs = {}
    /\ now = 0
    /\ nextId = 1
    /\ world \in {[upload_folder |-> u] : u \in UploadFolders}
    /\ imports = [i \in 1..MaxDrops |-> 0]
    /\ observers = {}
    /\ current = 0
    /\ queue = [o \in ObserverIds |-> <<>>]
    /\ proc = [t \in Threads |-> Idle]
    /\ sweep = NoSweep
    /\ sweepsDone = 0
    /\ faults = 0

\* user, sport_id = self._parse_file_path(file_path), or its ValueError
ParseCall(file_path) ==
    /\ proc[Main].pc = "idle"
    /\ proc' = [proc EXCEPT ![Main] =
            [parsed |-> ParseFilePath(file_path)]
                @@ [Idle EXCEPT !.pc = "parsed", !.file_path = file_path]]
    /\ UNCHANGED <<fs, dirs, now, nextId, world, imports, observers, current,
                   queue, sweep, sweepsDone, faults>>

\* the username _move_to_error takes from the same path
ErrorOwnerCall ==
    /\ proc[Main].pc = "parsed"
    /\ proc' = [proc EXCEPT ![Main] =
            [@ EXCEPT !.pc = "routed",
                      !.username = ErrorUsername(proc[Main].file_path)]]
    /\ UNCHANGED <<fs, dirs, now, nextId, world, imports, observers, current,
                   queue, sweep, sweepsDone, faults>>

ParseNext ==
    \/ \E file_path \in ParsePaths : ParseCall(file_path)
    \/ ErrorOwnerCall

ParseSpec == ParseInit /\ [][ParseNext]_vars

\* the position of the first segment named sink (0: none), and what follows
FirstMarker(parts) ==
    IF \A i \in 1..Len(parts) : parts[i] # Dir(SINK_FOLDER_NAME) THEN 0
    ELSE CHOOSE i \in 1..Len(parts) :
            /\ parts[i] = Dir(SINK_FOLDER_NAME)
            /\ \A j \in 1..(i - 1) : parts[j] # Dir(SINK_FOLDER_NAME)
AfterMarker(parts) == SubSeq(parts, FirstMarker(parts) + 1, Len(parts))
HasParsed == proc[Main].pc \in {"parsed", "routed"}

(***************************************************************************)
(* C12.  The parser's category is a function of the number of segments     *)
(* after the root marker: two give the default category, three with an     *)
(* integer in the middle give that integer, three with anything else in    *)
(* the middle give the default, more than three give the default; none of  *)
(* these cases raises.                                                     *)
(***************************************************************************)
C12_Category(remaining) ==
    IF Len(remaining) = 3 /\ remaining[2] = Dir("2") THEN 2
    ELSE IF Len(remaining) = 3 /\ remaining[2] = Dir("3") THEN 3
    ELSE 1

C12_CategoryBySegments ==
    HasParsed /\ FirstMarker(proc[Main].file_path) # 0
              /\ Len(AfterMarker(proc[Main].file_path)) >= 2 =>
        /\ proc[Main].parsed.error = ""
        /\ proc[Main].parsed.sport_id
                = C12_Category(AfterMarker(proc[Main].file_path))

\* a path with the number 3 in the middle of three segments was parsed
C12_Witness ==
    /\ HasParsed
    /\ proc[Main].file_path =
            UploadFolder \o <<Dir(SINK_FOLDER_NAME), Dir("alice"), Dir("3"),
                              File("run", ".gpx")>>
    /\ proc[Main].parsed.sport_id = 3

(***************************************************************************)
(* C13.  Parsing fails exactly when the path has no segment named sink or  *)
(* fewer than two segments follow the first one, with the message of the   *)
(* case; for every other path it succeeds.                                 *)
(***************************************************************************)
C13_FailsExactlyWhen ==
    HasParsed =>
        LET parts == proc[Main].file_path
            error == proc[Main].parsed.error
        IN  /\ FirstMarker(parts) = 0 => error = "'sink' not found in path"
            /\ FirstMarker(parts) # 0 /\ Len(AfterMarker(parts)) < 2
                    => error = "Invalid path structure"
            /\ FirstMarker(parts) # 0 /\ Len(AfterMarker(parts)) >= 2
                    => error = ""

\* a path that holds the marker twice, with one segment after the second,
\* was parsed without an error
C13_Witness ==
    /\ HasParsed
    /\ proc[Main].file_path =
            <<Dir(SINK_FOLDER_NAME), Dir("uploads"), Dir(SINK_FOLDER_NAME),
              File("run", ".gpx")>>
    /\ proc[Main].parsed.error = ""

(***************************************************************************)
(* C14.  For every path under the configured sink folder,                  *)
(* UPLOAD_FOLDER/sink, the owner that is looked up and the owner the file  *)
(* is routed by are the first segment after the sink folder, also when an  *)
(* ancestor of the sink folder is itself named sink.                       *)
(***************************************************************************)
C14_OwnerIsFirstSegment ==
    LET root == world.upload_folder \o <<Dir(SINK_FOLDER_NAME)>>
        parts == proc[Main].file_path
        rel == SubSeq(parts, Len(root) + 1, Len(parts))
    IN  HasParsed /\ IsPrefix(root, parts) /\ Len(rel) >= 2
                  /\ IsAllowed(parts) =>
            /\ proc[Main].parsed.error = ""
            /\ proc[Main].parsed.user =
                    IF rel[1] \in Users THEN rel[1] ELSE None
            /\ proc[Main].pc = "routed" => proc[Main].username = rel[1]

(***************************************************************************)
(* C15.  The import service is called for a file only after the owner was  *)
(* found, the sport was found and the owner is not suspended: the step     *)
(* that creates workouts is a _process_file call on a file of an existing, *)
(* active owner with an existing sport, and no call that created workouts  *)
(* is about any other file.                                                *)
(***************************************************************************)
C15_Validated(file_path) ==
    LET rel == SubSeq(file_path, Len(SinkFolder) + 1, Len(file_path))
    IN  /\ IsPrefix(SinkFolder, file_path)
        /\ Len(rel) >= 2
        /\ rel[1] \in Users
        /\ rel[1] \notin Suspended
        /\ C12_Category(rel) \in Sports

C15_ImportStep ==
    \A id \in DOMAIN imports :
        imports'[id] # imports[id] =>
            \E t \in Threads :
                /\ proc[t].pc = "process"
                /\ proc[t].file_path \in DOMAIN fs
                /\ fs[proc[t].file_path].id = id
                /\ C15_Validated(proc[t].file_path)
                /\ proc'[t].created

C15_CreatedValidated ==
    \A t \in Threads : proc[t].created => C15_Validated(proc[t].file_path)

C15_ImportOnlyValidated == []C15_CreatedValidated /\ [][C15_ImportStep]_vars

\* workouts of sport 2 were created for alice
C15_Witness ==
    \E t \in Threads :
        /\ proc[t].created
        /\ proc[t].file_path =
                SinkFolder \o <<Dir("alice"), Dir("2"), File("run", ".gpx")>>
        /\ imports[fs[proc[t].file_path].id] = 1

(***************************************************************************)
(* C16.  The first failing validation decides the diagnostic, in the order *)
(* owner lookup, sport lookup, owner eligibility: an absent owner gives    *)
(* the owner diagnostic whatever the sport, an absent sport gives the      *)
(* sport diagnostic with its id also for a suspended owner; the file is    *)
(* routed to error/{owner of the path}/, no workout is created, and the    *)
(* sidecar written for it holds that diagnostic.                           *)
(***************************************************************************)
C16_Diagnostic(rel) ==
    IF rel[1] \notin Users THEN "Could not determine user"
    ELSE IF C12_Category(rel) \notin Sports
    THEN "Sport ID " \o ToString(C12_Category(rel)) \o " not found"
    ELSE IF rel[1] \in Suspended
    THEN "User " \o NameOf(rel[1]) \o " is suspended"
    ELSE ""

C16_Rel(file_path) == SubSeq(file_path, Len(SinkFolder) + 1, Len(file_path))

C16_Routing ==
    \A t \in Threads :
        LET rel == C16_Rel(proc[t].file_path)
        IN  Resolving(t) /\ Len(rel) >= 2 /\ C16_Diagnostic(rel) # "" =>
                /\ proc[t].error_msg = C16_Diagnostic(rel)
                /\ proc[t].dest_type = ERROR_FOLDER_NAME
                /\ proc[t].username = rel[1]
                /\ ~proc[t].created
                /\ proc[t].pc \in {"move", "sidecar"} =>
                        Parent(proc[t].dest_path)
                            = DestFolder(ERROR_FOLDER_NAME, rel[1])

C16_SidecarHolds ==
    \A item \in world.creates :
        LET rel == C16_Rel(item.src_path)
            error_dest == DestFolder(ERROR_FOLDER_NAME, rel[1])
                            \o <<SidecarName(rel[Len(rel)])>>
        IN  /\ ~item.is_directory
            /\ Len(rel) >= 2
            /\ C16_Diagnostic(rel) # ""
            /\ error_dest \in DOMAIN fs
            => fs[error_dest] = ErrorContent(C16_Diagnostic(rel))

C16_FirstFailureDecides == C16_Routing /\ C16_SidecarHolds

\* bob is suspended and sport 3 does not exist: ride.FIT is in error/bob/
\* with a sidecar that names the sport
C16_Witness ==
    LET folder == DestFolder(ERROR_FOLDER_NAME, Dir("bob"))
    IN  /\ Dropped(folder \o <<File("ride", ".FIT")>>)
        /\ folder \o <<SidecarName(File("ride", ".FIT"))>> \in DOMAIN fs
        /\ fs[folder \o <<SidecarName(File("ride", ".FIT"))>>]
                = ErrorContent("Sport ID 3 not found")

(***************************************************************************)
(* C17.  Whenever the import service raises, the caller has rolled the     *)
(* transaction back before the file is routed to error/ and before         *)
(* _process_file returns, and the file is resolved as errored with the     *)
(* exception's message.                                                    *)
(***************************************************************************)
C17_State ==
    \A t \in Threads :
        Resolving(t) /\ proc[t].error_msg = "import raised" =>
            /\ proc[t].rolled_back
            /\ proc[t].dest_type = ERROR_FOLDER_NAME
            /\ ~proc[t].created

\* the step in which the service raises leaves the call rolled back and
\* on its way to error/, the file still in place
C17_RaiseStep ==
    \A t \in Threads :
        /\ proc[t].pc = "process"
        /\ proc'[t].pc = "route"
        /\ proc'[t].error_msg = "import raised"
        => /\ proc'[t].rolled_back
           /\ fs' = fs
           /\ imports' = imports

C17_RollbackBeforeRouting == []C17_State /\ [][C17_RaiseStep]_vars

\* the service raised for alice's file: it is in error/alice/ and its
\* sidecar holds the exception's message
C17_Witness ==
    LET folder == DestFolder(ERROR_FOLDER_NAME, Dir("alice"))
    IN  /\ Dropped(folder \o <<File("run", ".gpx")>>)
        /\ folder \o <<SidecarName(File("run", ".gpx"))>> \in DOMAIN fs
        /\ fs[folder \o <<SidecarName(File("run", ".gpx"))>>]
                = ErrorContent("import raised")

(***************************************************************************)
(* C18.  _process_file calls never overlap: at no point are two of them    *)
(* in flight, also when a sweep runs or start() was called more than once. *)
(***************************************************************************)
C18_NoOverlap == Cardinality({t \in Threads : InFlight(t)}) <= 1

(***************************************************************************)
(* C19.  After any sequence of error resolutions every sidecar in          *)
(* error/{owner}/ belongs to a file that is there: with no call in         *)
(* flight, next to every sidecar lies the file it is named after, so that  *)
(* a failed move leaves no orphan sidecar.                                 *)
(***************************************************************************)
C19_NoOrphanSidecar ==
    (\A t \in Threads : ~InFlight(t)) =>
        \A path \in DOMAIN fs :
            fs[path].id = 0 /\ IsPrefix(ErrorRoot, path) =>
                \E file \in DOMAIN fs :
                    /\ Dropped(file)
                    /\ Parent(file) = Parent(path)
                    /\ SidecarName(file[Len(file)]) = path[Len(path)]

(***************************************************************************)
(* C20.  Every _process_file call ends having routed the file to exactly   *)
(* one terminal subtree: the step that ends a call is its one move, to     *)
(* processed/, or the sidecar write that follows its one move to error/.   *)
(***************************************************************************)
C20_EndStep ==
    \A t \in Threads :
        /\ InFlight(t)
        /\ proc'[t].pc \in {"idle", "dead"}
        /\ IF t = Main THEN sweep'.state # "off" ELSE t \in observers'
        => \/ /\ proc[t].pc = "move"
              /\ proc[t].dest_type = PROCESSED_FOLDER_NAME
           \/ /\ proc[t].pc = "sidecar"
              /\ proc[t].dest_type = ERROR_FOLDER_NAME

C20_ExactlyOneMove == [][C20_EndStep]_vars

=============================================================================
